---- MODULE Spec2Model ----
(***************************************************************************)
(* Model of src/src/tri_symmetry.py: the TriSymmetry fitter.               *)
(*                                                                         *)
(* The module holds two specifications over one set of variables.          *)
(*   Spec      the life of a TriSymmetry(...) call, statement by statement *)
(*             (__init__ and the _ComputeCoeffs it runs, the orbit loop of *)
(*             lines 249-261 included).                                    *)
(*   SpecEval  the resolution arithmetic of EvaluateUnitCube.              *)
(* Each specification leaves the variables of the others at their idle     *)
(* values.                                                                 *)
(***************************************************************************)
EXTENDS Integers, Sequences, FiniteSets, TLC

VARIABLES
    pc,              \* position of the modelled call: "idle", "input", "done"
    shape,           \* data.shape of the constructor argument
    normal_to_face,  \* constructor argument
    copy_data,       \* constructor argument
    dtype,           \* data.dtype of the constructor argument
    is_real,         \* np.all(np.isreal(data))
    err,             \* exception the call ended with, "none" if it returned
    attrs,           \* names of the attributes set on self when the call ended
    instance,        \* "bound" iff the constructor returned an object
    n,               \* self.n
    max_f,           \* self.max_f
    freqs,           \* self.freqs: representative -> (image -> multiplicity)
    opt_runs,        \* number of _OptimizeCoeffs passes run
    res,             \* argument of EvaluateUnitCube
    res_actual,      \* resolution of the inverse transform
    skip,            \* decimation stride, 1 when the result is returned whole
    out_len          \* samples per axis of the returned array

lifeVars  == <<shape, dtype, normal_to_face, copy_data, is_real, attrs, instance,
               max_f, freqs, opt_runs>>
evalVars  == <<res, res_actual, skip, out_len>>
vars      == <<pc, err, n, lifeVars, evalVars>>

(***************************************************************************)
(* Bounds of the model.                                                    *)
(***************************************************************************)
MaxDim == 4    \* largest extent of an axis of the constructor argument
MaxN   == 6    \* largest grid side in SpecEval
MaxRes == 14   \* largest resolution asked of EvaluateUnitCube

EmptyMap == <<>>

(***************************************************************************)
(* Module constants of tri_symmetry.py.                                    *)
(***************************************************************************)
kSymmetries ==
    << << <<1, 0>>,  <<0, 1>>  >>,
       << <<0, -1>>, <<1, -1>> >>,
       << <<-1, 1>>, <<-1, 0>> >>,
       << <<0, -1>>, <<-1, 0>> >>,
       << <<-1, 1>>, <<0, 1>>  >>,
       << <<1, 0>>,  <<1, -1>> >> >>

kIntegerLatticePlanes == << <<0, -1>>, <<-1, 1>> >>

(***************************************************************************)
(* _IsInsideIntegerLatticePlanes(fa, fb): False as soon as one plane has   *)
(* fa*na + fb*nb > 0.                                                      *)
(***************************************************************************)
IsInsideIntegerLatticePlanes(fa, fb) ==
    \A i \in 1..Len(kIntegerLatticePlanes) :
        LET na == kIntegerLatticePlanes[i][1]
            nb == kIntegerLatticePlanes[i][2]
        IN  ~(fa * na + fb * nb > 0)

\* Number of parameters of the def at line 85.
FilterParams == 2

(***************************************************************************)
(* A call of _IsInsideIntegerLatticePlanes with the positional arguments   *)
(* args: Python raises TypeError when their number is not the number of    *)
(* parameters, before the body runs.                                       *)
(***************************************************************************)
FilterCall(args) ==
    IF Len(args) # FilterParams THEN "TypeError"
    ELSE IsInsideIntegerLatticePlanes(args[1], args[2])

\* Line 245.
MaxF(m) == IF m % 2 = 1 THEN m \div 2 ELSE m \div 2 - 1

\* range(-self.max_f, self.max_f + 1)
FreqRange(m) == (0 - MaxF(m))..MaxF(m)

\* Lines 249-251: the tuples (fx, fy, fz) the three nested loops run over,
\* and the first of them.
FreqTuples(m) == FreqRange(m) \X FreqRange(m) \X FreqRange(m)
FirstTuple(m) == <<0 - MaxF(m), 0 - MaxF(m), 0 - MaxF(m)>>

(***************************************************************************)
(* Idle values: what a specification gives the variables it does not use.  *)
(***************************************************************************)
CallIdle ==
    /\ shape = <<>> /\ dtype = "float64"
    /\ normal_to_face = FALSE /\ copy_data = TRUE
    /\ is_real = TRUE /\ attrs = {} /\ instance = "none"
    /\ max_f = 0 /\ opt_runs = 0
LifeIdle == CallIdle /\ freqs = EmptyMap
EvalIdle == res = 0 /\ res_actual = 0 /\ skip = 0 /\ out_len = 0

(***************************************************************************)
(* Spec: TriSymmetry.__init__.                                             *)
(***************************************************************************)
Shapes == UNION { [1..d -> 0..MaxDim] : d \in 1..3 }

\* Lines 122-125: the three asserts.
InitChecksMutant(s) == Len(s) = 2 /\ s[2] = s[1] /\ s[1] >= 2

InitChecks(s) == Len(s) = 2 /\ s[2] = s[1] /\ s[1] > 2

\* The dtype of data and the value np.all(np.isreal(data)) takes on it: an
\* array of a real dtype has no entry with an imaginary part.
DataKinds ==
    { <<"float64", TRUE>>, <<"complex128", TRUE>>, <<"complex128", FALSE>> }

\* Line 241: scipy.fft.rfftn refuses an array of complex dtype, whatever its
\* entries, with TypeError.
RfftnAccepts(dt) == dt # "complex128"

\* Attributes set by lines 126-129, by line 239, and by lines 241-248.
InitAttrs == {"n", "data", "normal_to_face", "kTol"}
IsRealAttrs == {"is_real"}
ComputeCoeffsAttrs(real) ==
    {IF real THEN "rfftn" ELSE "fftn", "max_f", "freqs"}

Init ==
    /\ pc = "idle" /\ err = "none" /\ n = 0
    /\ LifeIdle /\ EvalIdle

\* An assert of lines 122-125 fails: nothing has been assigned to self.
ConstructRejected(s, dt, ntf, cp, real) ==
    /\ ~InitChecks(s)
    /\ pc' = "done" /\ err' = "AssertionError"
    /\ shape' = s /\ dtype' = dt
    /\ normal_to_face' = ntf /\ copy_data' = cp /\ is_real' = real
    /\ attrs' = {} /\ instance' = "none"
    /\ n' = 0 /\ max_f' = 0 /\ freqs' = EmptyMap /\ opt_runs' = 0

\* The asserts pass and line 239 finds every entry real, but data has a
\* complex dtype: rfftn raises at line 241, before self.rfftn, self.max_f
\* and self.freqs are assigned.
ConstructRfftnRaises(s, dt, ntf, cp, real) ==
    /\ InitChecks(s)
    /\ real /\ ~RfftnAccepts(dt)
    /\ pc' = "done" /\ err' = "TypeError"
    /\ shape' = s /\ dtype' = dt
    /\ normal_to_face' = ntf /\ copy_data' = cp /\ is_real' = real
    /\ attrs' = InitAttrs \cup IsRealAttrs
    /\ instance' = "none"
    /\ n' = s[1] /\ max_f' = 0 /\ freqs' = EmptyMap /\ opt_runs' = 0

\* The asserts pass and the transform of line 241 or 243 is taken;
\* _ComputeCoeffs runs to the first iteration of its loop, where line 252
\* hands the filter the three components of (fx, fy, fz).  self.freqs is the
\* empty dict of line 248 when the exception leaves.
ConstructComputeCoeffs(s, dt, ntf, cp, real) ==
    /\ InitChecks(s)
    /\ real => RfftnAccepts(dt)
    /\ FreqTuples(s[1]) # {}
    /\ FilterCall(FirstTuple(s[1])) = "TypeError"
    /\ pc' = "done" /\ err' = "TypeError"
    /\ shape' = s /\ dtype' = dt
    /\ normal_to_face' = ntf /\ copy_data' = cp /\ is_real' = real
    /\ attrs' = InitAttrs \cup IsRealAttrs \cup ComputeCoeffsAttrs(real)
    /\ instance' = "none"
    /\ n' = s[1] /\ max_f' = MaxF(s[1]) /\ freqs' = EmptyMap /\ opt_runs' = 0

Construct ==
    \E s \in Shapes, kind \in DataKinds, ntf \in BOOLEAN, cp \in BOOLEAN :
        /\ pc = "idle"
        /\ \/ ConstructRejected(s, kind[1], ntf, cp, kind[2])
           \/ ConstructRfftnRaises(s, kind[1], ntf, cp, kind[2])
           \/ ConstructComputeCoeffs(s, kind[1], ntf, cp, kind[2])
        /\ UNCHANGED evalVars

Next == Construct

Spec == Init /\ [][Next]_vars

(***************************************************************************)
(* SpecEval: lines 181-183 and 227-231 of EvaluateUnitCube.                *)
(***************************************************************************)
\* int(np.ceil(a / b)) for positive a, b.
FloorDivMutant(a, b) == a \div b

CeilDiv(a, b) == (a + b - 1) \div b

\* Lines 181-183.
ResActual(m, r) == IF r < m THEN CeilDiv(m, r) * r ELSE r

\* Lines 227-231: the stride of result[::skip, ::skip, ::skip], 1 when the
\* result is returned whole.
Stride(m, r) == IF r < m THEN ResActual(m, r) \div r ELSE 1

\* len(range(0, total, step))
SliceLen(total, step) == CeilDiv(total, step)

InitEval ==
    /\ pc = "input" /\ err = "none"
    /\ n \in 3..MaxN
    /\ res \in 0..MaxRes
    /\ res_actual = 0 /\ skip = 0 /\ out_len = 0
    /\ LifeIdle

\* res = 0 < n: line 183 divides by zero.
EvaluateZeroRes ==
    /\ pc = "input" /\ res = 0
    /\ pc' = "done" /\ err' = "ZeroDivisionError"
    /\ UNCHANGED <<n, res, res_actual, skip, out_len>>
    /\ UNCHANGED lifeVars

\* 0 < res < n: transform at res_actual, return every skip-th sample.
EvaluateDecimated ==
    /\ pc = "input" /\ res > 0 /\ res < n
    /\ pc' = "done"
    /\ res_actual' = ResActual(n, res)
    /\ skip' = Stride(n, res)
    /\ out_len' = SliceLen(ResActual(n, res), Stride(n, res))
    /\ UNCHANGED <<err, n, res, lifeVars>>

\* res >= n: transform at res, return the result whole.
EvaluateDirect ==
    /\ pc = "input" /\ res >= n
    /\ pc' = "done"
    /\ res_actual' = ResActual(n, res)
    /\ skip' = Stride(n, res)
    /\ out_len' = ResActual(n, res)
    /\ UNCHANGED <<err, n, res, lifeVars>>

NextEval == EvaluateZeroRes \/ EvaluateDecimated \/ EvaluateDirect

SpecEval == InitEval /\ [][NextEval]_vars

(***************************************************************************)
(* Claims.                                                                 *)
(***************************************************************************)
Accepted(s) == Len(s) = 2 /\ s[1] = s[2] /\ s[1] > 2

\* C1 (Spec): after construction on an accepted grid of size N, every
\* frequency tuple with all components in [-max_f, max_f] is a member of the
\* orbit of exactly one representative held in self.freqs.
C1_OrbitPartition ==
    (pc = "done" /\ Accepted(shape)) =>
        \A t \in FreqTuples(n) :
            Cardinality({ r \in DOMAIN freqs : t \in DOMAIN freqs[r] }) = 1

NotSquareOrCubic(s) ==
    ~(Len(s) \in {2, 3} /\ \A i \in 1..Len(s) : s[i] = s[1])

\* C5 (Spec): an input that is not square/cubic, or whose side is <= 2, ends
\* the call with the assertion failure and nothing set on the instance; a
\* square input with N > 2 passes the asserts.
C5_RejectedAtBoundary ==
    pc = "done" =>
        /\ (NotSquareOrCubic(shape) \/ shape[1] <= 2) =>
                /\ err = "AssertionError"
                /\ attrs = {} /\ instance = "none" /\ freqs = EmptyMap
        /\ (Len(shape) = 2 /\ shape[1] = shape[2] /\ shape[1] > 2) =>
                err # "AssertionError"

\* A square input of side 2 has been rejected.
C5_Witness ==
    /\ pc = "done" /\ shape = <<2, 2>>
    /\ err = "AssertionError" /\ attrs = {}

\* C3 (Spec): for any accepted grid input constructed without face-normal
\* adjustment, EvaluateNaive at the native sample points reproduces the
\* input samples.  The evaluation needs the constructor to return a fitter
\* that holds the orbit terms and both coefficient maps; the formula states
\* that the construction delivers them.
C3_RoundTrip ==
    (pc = "done" /\ Accepted(shape) /\ ~normal_to_face) =>
        /\ err = "none" /\ instance = "bound"
        /\ freqs # EmptyMap
        /\ {"basis_coeffs", "normalizing_coeffs"} \subseteq attrs

\* C7 (Spec): after construction with normal_to_face on an accepted grid the
\* final BasisCoefficients satisfy every retained face-normal constraint.
\* The formula states that the construction delivers a fitter on which the
\* constraints were built and imposed by an optimizer pass.
C7_ConstraintsImposed ==
    (pc = "done" /\ Accepted(shape) /\ normal_to_face) =>
        /\ instance = "bound"
        /\ "constraints" \in attrs
        /\ opt_runs >= 1

\* C8 (Spec): the BasisCoefficients are changed by the optimizer exactly
\* once when normal_to_face is enabled and never when it is disabled.
C8_OptimizerRunsOnce ==
    (pc = "done" /\ Accepted(shape)) =>
        opt_runs = (IF normal_to_face THEN 1 ELSE 0)

\* n * (r div n + 1): the smallest multiple of n that exceeds r.
SmallestMultipleExceeding(m, r) == m * (r \div m + 1)

\* C9 as claimed (SpecEval): for 0 < res < N the transform is taken at the
\* smallest multiple of N exceeding res.
C9_MultipleOfN ==
    (pc = "done" /\ res > 0 /\ res < n) =>
        res_actual = SmallestMultipleExceeding(n, res)

\* C9 amended (SpecEval): for 0 < res < N the transform is taken at the
\* smallest multiple of res that is at least N and the result is decimated
\* with stride res_actual / res to res samples per axis; for res >= N the
\* transform is taken at res and returned whole.
C9_MultipleOfRes ==
    pc = "done" =>
        /\ (res > 0 /\ res < n) =>
                /\ res_actual % res = 0
                /\ res_actual >= n
                /\ res_actual - res < n
                /\ skip * res = res_actual
                /\ out_len = res
        /\ res >= n =>
                /\ res_actual = res /\ skip = 1 /\ out_len = res

\* A request below N that does not divide N: the transform is larger than N.
C9_Witness ==
    /\ pc = "done" /\ res > 0 /\ res < n
    /\ n % res # 0 /\ res_actual > n /\ skip > 1

====
